---- MODULE Spec2Model ----
(***************************************************************************)
(* Model of the cold-extract tool of ctfer-io/monitoring (package main of  *)
(* the extractor command): run, getClient, waitForPodReady, copyFromPod    *)
(* and untar, together with the cluster (the pod named "extractor" of one  *)
(* namespace) and the local filesystem they act on.                        *)
(*                                                                         *)
(* Time is counted in seconds. Paths are sequences of path components.     *)
(***************************************************************************)
EXTENDS Integers, Sequences, FiniteSets, TLC

VARIABLES
    pc,        \* pc[r]: where run r stands in func run
    err,       \* err[r]: the error run r returned ("nil" while running / on success)
    pollErr,   \* pollErr[r]: what wait.PollUntilContextTimeout returned to waitForPodReady
    elapsed,   \* elapsed[r]: seconds since waitForPodReady of run r started
    nextTick,  \* nextTick[r]: second at which the poll timer of run r fires next
    timedOutAt, \* timedOutAt[r]: second of the wait at which its deadline ended it, or -1
    pod,       \* the pod "extractor" of the namespace, as the API server holds it
    stdout,    \* stdout[r]: the bytes.Buffer of copyFromPod, as a sequence of tar entries
    source,    \* source[r]: the tree of the volume that tar archived into stdout[r]
    stderr,    \* stderr[r]: the bytes.Buffer stderr of copyFromPod, as a text
    errText,   \* errText[r]: the text of the error copyFromPod built, as its parts
    unpacked,  \* unpacked[r]: the entries the untar of run r has read
    fs,        \* the local filesystem: path -> node
    reqs,      \* reqs[r]: the kinds of API requests run r has issued
    log,       \* log[r]: the stages of run r, in the order they began and ended
    stack      \* the Pulumi program of the monitoring component (see Provisioning)

vars ==
    <<pc, err, pollErr, elapsed, nextTick, timedOutAt, pod, stdout, source,
      stderr, errText, unpacked, fs, reqs, log, stack>>

(***************************************************************************)
(* The runs: two invocations of the command against the same namespace.    *)
(***************************************************************************)
Runs == {"r1", "r2"}

\* wait.PollUntilContextTimeout(ctx, 2*time.Second, 2*time.Minute, true, ...)
PollInterval == 2
PollTimeout == 120

\* How long one Pods(namespace).Get may take: up to MaxGetSeconds seconds.
MaxGetSeconds == 1

GetDurations == 0..MaxGetSeconds

\* The deadline of a call whose interval and timeout arguments were
\* written in the wrong order.
DeadlineFromInterval == PollInterval

\* context.WithTimeout(ctx, timeout) inside PollUntilContextTimeout: the
\* second of the wait at which the context of the poll expires.
Deadline == PollTimeout

\* The stages of a run, in the order func run writes them.
Stages == <<"session", "create", "wait", "exec", "unpack", "delete">>

StageIndex(s) == CHOOSE i \in 1..Len(Stages) : Stages[i] = s

--------------------------------------------------------------------------
(***************************************************************************)
(* Paths and the local filesystem                                          *)
(***************************************************************************)

\* The --directory flag: the local destination root, relative to the
\* working directory (the empty path).
Dest == <<"out">>

Max(a, b) == IF a > b THEN a ELSE b

Parent(p) == IF p = <<>> THEN <<>> ELSE SubSeq(p, 1, Len(p) - 1)

IsPrefix(p, q) == Len(p) <= Len(q) /\ SubSeq(q, 1, Len(p)) = p

\* path.Clean on a relative path given by its components: "." and empty
\* components vanish, ".." removes the component before it, and a ".."
\* with nothing before it stays.
RECURSIVE CleanFrom(_, _)
CleanFrom(acc, rest) ==
    IF rest = <<>> THEN acc
    ELSE LET c == Head(rest) IN
         IF c = "." \/ c = ""
         THEN CleanFrom(acc, Tail(rest))
         ELSE IF c = ".."
              THEN IF acc # <<>> /\ acc[Len(acc)] # ".."
                   THEN CleanFrom(SubSeq(acc, 1, Len(acc) - 1), Tail(rest))
                   ELSE CleanFrom(Append(acc, ".."), Tail(rest))
              ELSE CleanFrom(Append(acc, c), Tail(rest))

\* The two paths put one after the other, with no path.Clean.
JoinWithoutClean(dest, name) == dest \o name

\* path.Join(dest, name)
Join(dest, name) == CleanFrom(<<>>, dest \o name)

DirNode == [kind |-> "dir", data |-> ""]
FileNode(d) == [kind |-> "file", data |-> d]

Exists(f, p) == p = <<>> \/ p \in DOMAIN f
IsDir(f, p) == p = <<>> \/ (p \in DOMAIN f /\ f[p].kind = "dir")
IsFile(f, p) == p \in DOMAIN f /\ f[p].kind = "file"

Put(f, p, n) == [q \in DOMAIN f \cup {p} |-> IF q = p THEN n ELSE f[q]]

\* os.Mkdir in the place of os.MkdirAll, with its error for a directory
\* that exists already.
MkdirExclusive(f, p) ==
    IF Exists(f, p) \/ ~IsDir(f, Parent(p)) THEN [ok |-> FALSE, fs |-> f]
    ELSE [ok |-> TRUE, fs |-> Put(f, p, DirNode)]

\* os.Mkdir in the place of os.MkdirAll: a missing parent is an error.
MkdirOfLeaf(f, p) ==
    IF IsDir(f, p) THEN [ok |-> TRUE, fs |-> f]
    ELSE IF Exists(f, p) \/ ~IsDir(f, Parent(p)) THEN [ok |-> FALSE, fs |-> f]
    ELSE [ok |-> TRUE, fs |-> Put(f, p, DirNode)]

\* os.MkdirAll(p, 0755): nothing to do when p is a directory, an error
\* when p or one of its ancestors is a file, and otherwise the missing
\* ancestors are created from the top, then p.
RECURSIVE MkdirAll(_, _)
MkdirAll(f, p) ==
    IF IsDir(f, p) THEN [ok |-> TRUE, fs |-> f]
    ELSE IF Exists(f, p) THEN [ok |-> FALSE, fs |-> f]
    ELSE LET up == MkdirAll(f, Parent(p)) IN
         IF up.ok THEN [ok |-> TRUE, fs |-> Put(up.fs, p, DirNode)]
         ELSE up

\* os.Create(p) with the io.Copy left out: the file is created or
\* truncated and stays empty.
CreateWithoutCopy(f, p, d) ==
    IF IsDir(f, p) \/ ~IsDir(f, Parent(p)) THEN [ok |-> FALSE, fs |-> f]
    ELSE [ok |-> TRUE, fs |-> Put(f, p, FileNode(""))]

\* An os.Create that clears the directory it creates the file in.
CreateInClearedDir(f, p, d) ==
    IF IsDir(f, p) \/ ~IsDir(f, Parent(p)) THEN [ok |-> FALSE, fs |-> f]
    ELSE LET kept == {q \in DOMAIN f : ~(q # Parent(p) /\ IsPrefix(Parent(p), q))}
         IN  [ok |-> TRUE, fs |-> Put([q \in kept |-> f[q]], p, FileNode(d))]

\* An os.OpenFile with O_EXCL semantics relaxed to "leave an existing file
\* as it is".
CreateIfAbsent(f, p, d) ==
    IF IsDir(f, p) \/ ~IsDir(f, Parent(p)) THEN [ok |-> FALSE, fs |-> f]
    ELSE IF IsFile(f, p) THEN [ok |-> TRUE, fs |-> f]
    ELSE [ok |-> TRUE, fs |-> Put(f, p, FileNode(d))]

\* os.Create(p) followed by io.Copy(f, tr): the file is created or
\* truncated and receives the entry's content; an error when p is a
\* directory or its parent is no directory.
Create(f, p, d) ==
    IF IsDir(f, p) \/ ~IsDir(f, Parent(p)) THEN [ok |-> FALSE, fs |-> f]
    ELSE [ok |-> TRUE, fs |-> Put(f, p, FileNode(d))]

--------------------------------------------------------------------------
(***************************************************************************)
(* The archive: what `tar cf - -C /data .` writes and what untar reads     *)
(***************************************************************************)

\* One tar header with its content. typeflag "dir" is tar.TypeDir, "reg" is
\* tar.TypeReg, "symlink" stands for every other type flag, and "corrupt"
\* is a place of the stream where tr.Next() returns an error that is not
\* io.EOF.
Entry(n, t, d) == [name |-> n, typeflag |-> t, data |-> d]

\* An untar that goes on with the next entry after an error and reports
\* the error at the end.
RECURSIVE untarLenient(_, _, _)
untarLenient(entries, dest, f) ==
    IF entries = <<>> THEN [err |-> FALSE, fs |-> f]
    ELSE LET hdr == Head(entries)
             target == Join(dest, hdr.name)
         IN  IF hdr.typeflag = "corrupt"
             THEN [err |-> TRUE, fs |-> untarLenient(Tail(entries), dest, f).fs]
             ELSE IF hdr.typeflag = "dir"
             THEN LET m == MkdirAll(f, target)
                      rest == untarLenient(Tail(entries), dest, m.fs)
                  IN  [err |-> rest.err \/ ~m.ok, fs |-> rest.fs]
             ELSE IF hdr.typeflag = "reg"
             THEN LET m == MkdirAll(f, Parent(target))
                      c == IF m.ok THEN Create(m.fs, target, hdr.data) ELSE m
                      rest == untarLenient(Tail(entries), dest, c.fs)
                  IN  [err |-> rest.err \/ ~c.ok, fs |-> rest.fs]
             ELSE untarLenient(Tail(entries), dest, f)

\* An untar whose switch returns an error for every type flag it does not
\* handle.
RECURSIVE untarStrict(_, _, _)
untarStrict(entries, dest, f) ==
    IF entries = <<>> THEN [err |-> FALSE, fs |-> f]
    ELSE LET hdr == Head(entries)
             target == Join(dest, hdr.name)
         IN  IF hdr.typeflag = "dir"
             THEN LET m == MkdirAll(f, target) IN
                  IF m.ok THEN untarStrict(Tail(entries), dest, m.fs)
                  ELSE [err |-> TRUE, fs |-> m.fs]
             ELSE IF hdr.typeflag = "reg"
             THEN LET m == MkdirAll(f, Parent(target)) IN
                  IF ~m.ok THEN [err |-> TRUE, fs |-> m.fs]
                  ELSE LET c == Create(m.fs, target, hdr.data) IN
                       IF c.ok THEN untarStrict(Tail(entries), dest, c.fs)
                       ELSE [err |-> TRUE, fs |-> c.fs]
             ELSE [err |-> TRUE, fs |-> f]

\* untar(r, dest), from the entry it is about to read: the loop of
\* tr.Next() with the switch on hdr.Typeflag.
RECURSIVE untar(_, _, _)
untar(entries, dest, f) ==
    IF entries = <<>> THEN [err |-> FALSE, fs |-> f]
    ELSE LET hdr == Head(entries)
             target == Join(dest, hdr.name)
         IN  IF hdr.typeflag = "corrupt" THEN [err |-> TRUE, fs |-> f]
             ELSE IF hdr.typeflag = "dir"
             THEN LET m == MkdirAll(f, target) IN
                  IF m.ok THEN untar(Tail(entries), dest, m.fs)
                  ELSE [err |-> TRUE, fs |-> m.fs]
             ELSE IF hdr.typeflag = "reg"
             THEN LET m == MkdirAll(f, Parent(target)) IN
                  IF ~m.ok THEN [err |-> TRUE, fs |-> m.fs]
                  ELSE LET c == Create(m.fs, target, hdr.data) IN
                       IF c.ok THEN untar(Tail(entries), dest, c.fs)
                       ELSE [err |-> TRUE, fs |-> c.fs]
             ELSE untar(Tail(entries), dest, f)

\* A volume is a tree of directories and regular files: relative path ->
\* node, every node's parent being a directory of the tree.

VolEmpty == <<>> :> DirNode
VolOneFile == VolEmpty @@ (<<"a">> :> FileNode("x"))
VolNested == VolEmpty @@ (<<"a">> :> DirNode) @@ (<<"a", "b">> :> FileNode("x"))
VolMixed ==
    VolEmpty @@ (<<"a">> :> DirNode) @@ (<<"a", "b">> :> FileNode("x"))
             @@ (<<"b">> :> FileNode("y"))
VolEmptyNodes ==
    VolEmpty @@ (<<"a">> :> DirNode) @@ (<<"a", "a">> :> DirNode)
             @@ (<<"b">> :> FileNode(""))

\* The contents the mounted volume may have when tar reads it.
Volumes == {VolEmpty, VolOneFile, VolNested, VolMixed, VolEmptyNodes}

\* The header tar writes for node p of volume v: "./" for the root,
\* "./a/b" below it.
HeaderOf(v, p) ==
    Entry(<<".">> \o p, IF v[p].kind = "dir" THEN "dir" ELSE "reg", v[p].data)

\* tar walks the tree from the root: every directory's header comes before
\* the headers of what it contains; the order among siblings is the
\* directory's, which is arbitrary.
WalkOrders(v) ==
    {o \in [1..Cardinality(DOMAIN v) -> DOMAIN v] :
        /\ \A i, j \in DOMAIN o : i # j => o[i] # o[j]
        /\ \A i, j \in DOMAIN o :
              (o[i] # o[j] /\ IsPrefix(o[i], o[j])) => i < j}

TarOutputs(v) == {[i \in DOMAIN o |-> HeaderOf(v, o[i])] : o \in WalkOrders(v)}

\* The headers a byte stream handed to untar may hold: untar reads whatever
\* the exec channel delivered, which need not be what tar writes for a
\* volume of Volumes (a parent-directory segment in a name, a type flag
\* other than directory and regular file, a damaged header, a file where
\* another entry has a directory).
EntryPool ==
    { Entry(<<".">>, "dir", ""),
      Entry(<<".", "a">>, "dir", ""),
      Entry(<<".", "a", "b">>, "reg", "x"),
      Entry(<<".", "b">>, "reg", "y"),
      Entry(<<".", "l">>, "symlink", ""),
      Entry(<<"..", "evil">>, "reg", "x"),
      Entry(<<".", "a">>, "reg", "w"),
      Entry(<<".", "b">>, "reg", ""),
      Entry(<<>>, "corrupt", "") }

MaxEntries == 3

Archives == UNION {[1..n -> EntryPool] : n \in 0..MaxEntries}

\* The local filesystem before any run: the destination missing, or left
\* over from an earlier extraction.
FsBare == <<"home">> :> DirNode
FsStaleFile == FsBare @@ (Dest :> DirNode) @@ (Dest \o <<"a">> :> FileNode("z"))
FsStaleTree ==
    FsBare @@ (Dest :> DirNode) @@ (Dest \o <<"a">> :> DirNode)
           @@ (Dest \o <<"a", "b">> :> FileNode("z"))
           @@ (Dest \o <<"b">> :> DirNode)

InitialFs == {FsBare, FsStaleFile, FsStaleTree}

--------------------------------------------------------------------------
(***************************************************************************)
(* The cluster: the one pod name every run uses                            *)
(***************************************************************************)

\* podName := "extractor": no pod of that name, or the pod a run created.
\* phase is the pod's phase and conditions its pod.Status.Conditions, each a
\* type with a status.
NoPod == [exists |-> FALSE, owner |-> "none", phase |-> "none", conditions |-> {}]
NewPod(r) == [exists |-> TRUE, owner |-> r, phase |-> "Pending", conditions |-> {}]

Cond(t, st) == [type |-> t, status |-> st]

\* A condition function that also wants the pod to be in phase Running.
PodReadyAndRunning(p) ==
    /\ p.phase = "Running"
    /\ \E cond \in p.conditions : cond.type = "Ready" /\ cond.status = "True"

\* The loop of the condition function over pod.Status.Conditions:
\* cond.Type == corev1.PodReady && cond.Status == corev1.ConditionTrue.
PodReady(p) == \E cond \in p.conditions : cond.type = "Ready" /\ cond.status = "True"

\* Monitoring.provision: the resources of the component in the order in
\* which provision constructs them (mon.ns, mon.prom, mon.perses,
\* mon.jaeger, mon.otel, then the network policies).
ProvisionOrder ==
    << "namespace", "prometheus", "perses", "jaeger", "otel",
       "inotelntp", "otelntp", "prsToAPI", "jgrntp", "promntp" >>

Resources == {ProvisionOrder[i] : i \in DOMAIN ProvisionOrder}

\* An argument table in which Jaeger is also given the collector's endpoint.
InputsOfWithCycle(p) ==
    CASE p = "namespace"  -> {}
      [] p = "prometheus" -> {"namespace"}
      [] p = "perses"     -> {"namespace", "prometheus"}
      [] p = "jaeger"     -> {"namespace", "prometheus", "otel"}
      [] p = "otel"       -> {"namespace", "jaeger", "prometheus"}
      [] p = "inotelntp"  -> {"namespace", "otel"}
      [] p = "otelntp"    -> {"namespace", "otel", "prometheus", "jaeger"}
      [] p = "prsToAPI"   -> {"namespace", "perses"}
      [] p = "jgrntp"     -> {"namespace", "jaeger", "otel", "prometheus"}
      [] p = "promntp"    -> {"namespace", "prometheus", "otel", "jaeger", "perses"}

\* The resources whose outputs (mon.ns.Name, mon.prom.URL, mon.prom.PodLabels,
\* mon.jaeger.URL, mon.otel.Endpoint, ...) stand in the arguments with which
\* provision constructs resource p. Fields of args (Registry, ColdExtract,
\* StorageClassName, ...) are plain inputs of the component and no output
\* of a resource.
InputsOf(p) ==
    CASE p = "namespace"  -> {}
      [] p = "prometheus" -> {"namespace"}
      [] p = "perses"     -> {"namespace", "prometheus"}
      [] p = "jaeger"     -> {"namespace", "prometheus"}
      [] p = "otel"       -> {"namespace", "jaeger", "prometheus"}
      [] p = "inotelntp"  -> {"namespace", "otel"}
      [] p = "otelntp"    -> {"namespace", "otel", "prometheus", "jaeger"}
      [] p = "prsToAPI"   -> {"namespace", "perses"}
      [] p = "jgrntp"     -> {"namespace", "jaeger", "otel", "prometheus"}
      [] p = "promntp"    -> {"namespace", "prometheus", "otel", "jaeger", "perses"}

\* A string given as its characters; of a registry only the trailing
\* slashes matter, so "r" stands for every other character.
MaxRegistryLen == 3
Strings == UNION {[1..n -> {"r", "/"}] : n \in 0..MaxRegistryLen}

\* args.Registry: nil, or a string.
NoRegistry == [set |-> FALSE, str |-> <<>>]
Registries == {NoRegistry} \cup {[set |-> TRUE, str |-> x] : x \in Strings}

HasSuffixSlash(x) == x # <<>> /\ x[Len(x)] = "/"

\* Jaeger.defaults, the function applied to args.Registry: "" for nil,
\* otherwise the string, with a "/" appended when it is not empty and does
\* not end with one.
NormalizeRegistry(in) ==
    IF ~in.set THEN <<>>
    ELSE IF in.str # <<>> /\ ~HasSuffixSlash(in.str) THEN Append(in.str, "/")
    ELSE in.str

\* Perses.defaults, the function applied to args.Registry: "docker.io" for
\* nil and "", otherwise strings.TrimSuffix(in, "/").
PersesRegistry(in) ==
    IF ~in.set \/ in.str = <<>> THEN <<"docker.io">>
    ELSE IF HasSuffixSlash(in.str) THEN SubSeq(in.str, 1, Len(in.str) - 1)
    ELSE in.str

\* The three component constructors of the same shape.
Kinds == {"monitoring", "jaeger", "perses"}

\* What the checked argument of a constructor may be. For NewMonitoring it
\* is NetpolAPIServerTemplate: nil, "", a template text/template cannot
\* parse, or one it can. For NewJaeger it is PrometheusURL: nil, a URL
\* checkValidURL refuses, or one it accepts. For NewPerses it is
\* PrometheusURL: nil, "", or a non-empty string.
InputsFor(kind) ==
    CASE kind = "monitoring" -> {"absent", "empty", "invalid", "valid"}
      [] kind = "jaeger"     -> {"absent", "invalid", "valid"}
      [] kind = "perses"     -> {"absent", "empty", "valid"}

\* checks := 1, the number of callbacks check registers.
Checks == 1

\* cerr := make(chan error, checks)
Capacity == Checks

\* What the callback of check sends to cerr for value v: "none" when it
\* sends nothing. Monitoring.check sends the result of Parse, nil included;
\* Jaeger.check sends the wrapped error of checkValidURL; Perses.check
\* sends an error for the empty string.
Sent(kind, v) ==
    CASE kind = "monitoring" -> IF v = "invalid" THEN "error" ELSE "nil"
      [] kind = "jaeger"     -> IF v = "invalid" THEN "error" ELSE "none"
      [] kind = "perses"     -> IF v = "empty" THEN "error" ELSE "none"

\* The monitoring component before provision is called: at is where
\* provision stands, built the resources constructed so far in order, took
\* the resources whose outputs each constructor was given, and resolved
\* the resources whose outputs the engine has resolved. The other fields
\* belong to a component constructor: its kind, its checked argument and
\* whether the engine resolves that to a known value, args.Registry and
\* args.registry, the steps the constructor has run, whether the component
\* is registered and whether provision has run, the WaitGroup counter, the
\* channel cerr and whether it is closed, where the callback stands,
\* whether check returned an error, and what the constructor returned.
NoStack ==
    [at |-> "idle", built |-> <<>>, took |-> [p \in Resources |-> {}], resolved |-> {},
     kind |-> "monitoring", input |-> "absent", known |-> TRUE,
     Registry |-> NoRegistry, registry |-> <<>>,
     trace |-> <<>>, registered |-> FALSE, provisioned |-> FALSE,
     wg |-> 0, cerr |-> <<>>, closed |-> FALSE, cb |-> "none",
     merr |-> "nil", ret |-> "none"]

Ev(stage, what) == [stage |-> stage, ev |-> what]

Logged(r, evs) == [log EXCEPT ![r] = @ \o evs]
Issued(r, kind) == [reqs EXCEPT ![r] = @ \cup {kind}]

\* func run returns e: the process of run r is over.
Return(r, e) ==
    /\ pc' = [pc EXCEPT ![r] = "done"]
    /\ err' = [err EXCEPT ![r] = e]

\* func main: app.Run returned e; a non-nil error is logged with
\* log().Fatal, which exits with code 1, and otherwise main returns.
ExitCode(e) == IF e = "nil" THEN 0 ELSE 1

Init ==
    /\ pc = [r \in Runs |-> "start"]
    /\ err = [r \in Runs |-> "nil"]
    /\ pollErr = [r \in Runs |-> "unset"]
    /\ elapsed = [r \in Runs |-> 0]
    /\ nextTick = [r \in Runs |-> 0]
    /\ timedOutAt = [r \in Runs |-> -1]
    /\ pod = NoPod
    /\ stdout = [r \in Runs |-> <<>>]
    /\ source = [r \in Runs |-> <<>>]
    /\ stderr = [r \in Runs |-> ""]
    /\ errText = [r \in Runs |-> <<>>]
    /\ unpacked = [r \in Runs |-> <<>>]
    /\ fs \in InitialFs
    /\ reqs = [r \in Runs |-> {}]
    /\ log = [r \in Runs |-> <<>>]
    /\ stack = NoStack

\* clientset, config, err := getClient(): the kubeconfig is read and the
\* client built, or run returns the error.
GetClient(r) ==
    /\ pc[r] = "start"
    /\ \/ /\ pc' = [pc EXCEPT ![r] = "create"]
          /\ log' = Logged(r, <<Ev("session", "begin"), Ev("session", "ok")>>)
          /\ UNCHANGED err
       \/ /\ Return(r, "auth")
          /\ log' = Logged(r, <<Ev("session", "begin"), Ev("session", "fail")>>)
    /\ UNCHANGED <<pollErr, elapsed, nextTick, timedOutAt, pod, stdout, source, fs, reqs>>
    /\ UNCHANGED <<stderr, errText, unpacked, stack>>

\* A creation that replaces a pod of the same name instead of failing.
CreateAnswersWithoutConflict == {"created", "rejected"}

\* What Pods(namespace).Create answers: the name is taken while the pod
\* exists; otherwise the API server admits the pod or rejects it (quota,
\* admission).
CreateAnswers == IF pod.exists THEN {"conflict"} ELSE {"created", "rejected"}

\* A run that logs the error of Create and goes on instead of returning it.
CreatePodIgnoringError(r) ==
    /\ pc[r] = "create"
    /\ reqs' = Issued(r, "create")
    /\ \E a \in CreateAnswers :
          /\ pod' = IF a = "created" THEN NewPod(r) ELSE pod
          /\ log' = Logged(r, <<Ev("create", "begin"),
                                Ev("create", IF a = "created" THEN "ok" ELSE "fail"),
                                Ev("wait", "begin")>>)
    /\ pc' = [pc EXCEPT ![r] = "get"]
    /\ elapsed' = [elapsed EXCEPT ![r] = 0]
    /\ nextTick' = [nextTick EXCEPT ![r] = PollInterval]
    /\ pollErr' = [pollErr EXCEPT ![r] = "pending"]
    /\ UNCHANGED <<err, timedOutAt, stdout, source, fs>>
    /\ UNCHANGED <<stderr, errText, unpacked, stack>>

\* clientset.CoreV1().Pods(namespace).Create(...): on an error run returns
\* it; otherwise waitForPodReady starts, and with immediate = true its
\* first condition call is made at once.
CreatePod(r) ==
    /\ pc[r] = "create"
    /\ reqs' = Issued(r, "create")
    /\ \E a \in CreateAnswers :
          IF a = "created"
          THEN /\ pod' = NewPod(r)
               /\ pc' = [pc EXCEPT ![r] = "get"]
               /\ elapsed' = [elapsed EXCEPT ![r] = 0]
               /\ nextTick' = [nextTick EXCEPT ![r] = PollInterval]
               /\ pollErr' = [pollErr EXCEPT ![r] = "pending"]
               /\ log' = Logged(r, <<Ev("create", "begin"), Ev("create", "ok"),
                                     Ev("wait", "begin")>>)
               /\ UNCHANGED err
          ELSE /\ Return(r, "create")
               /\ log' = Logged(r, <<Ev("create", "begin"), Ev("create", "fail")>>)
               /\ UNCHANGED <<pod, elapsed, nextTick, pollErr>>
    /\ UNCHANGED <<timedOutAt, stdout, source, fs>>
    /\ UNCHANGED <<stderr, errText, unpacked, stack>>

\* wait.PollUntilContextTimeout returns e to waitForPodReady at second t of
\* the wait; waitForPodReady drops e and returns nothing, and run goes on to
\* copyFromPod. The timer and the deadline context are released.
waitForPodReadyReturns(r, e, t) ==
    /\ pollErr' = [pollErr EXCEPT ![r] = e]
    /\ timedOutAt' = [timedOutAt EXCEPT ![r] = IF e = "timeout" THEN t ELSE @]
    /\ elapsed' = [elapsed EXCEPT ![r] = 0]
    /\ nextTick' = [nextTick EXCEPT ![r] = 0]
    /\ pc' = [pc EXCEPT ![r] = "copy"]
    /\ log' = Logged(r, <<Ev("wait", IF e = "nil" THEN "ok" ELSE "fail")>>)

\* What Pods(namespace).Get answers: NotFound when there is no such pod,
\* otherwise the pod's status or an error of the API server or the network.
GetAnswers == IF pod.exists THEN {"status", "error"} ELSE {"notfound"}

\* The condition function of waitForPodReady, from the moment its Get
\* returns after d seconds: an error of the Get ends the poll with it, a
\* Ready condition with status True ends it with nil, anything else waits
\* for the next tick. The context of the Get carries the deadline, so a Get
\* still in flight at the deadline fails with the context's error.
PollCondition(r) ==
    /\ pc[r] = "get"
    /\ \E d \in GetDurations :
         IF elapsed[r] + d >= Deadline
         THEN waitForPodReadyReturns(r, "timeout", Max(elapsed[r], Deadline))
         ELSE \E a \in GetAnswers :
                 IF a = "status"
                 THEN IF PodReady(pod)
                      THEN waitForPodReadyReturns(r, "nil", elapsed[r] + d)
                      ELSE /\ elapsed' = [elapsed EXCEPT ![r] = @ + d]
                           /\ pc' = [pc EXCEPT ![r] = "poll"]
                           /\ UNCHANGED <<pollErr, timedOutAt, nextTick, log>>
                 ELSE waitForPodReadyReturns(r, a, elapsed[r] + d)
    /\ reqs' = Issued(r, "get")
    /\ UNCHANGED <<err, pod, stdout, source, fs>>
    /\ UNCHANGED <<stderr, errText, unpacked, stack>>

\* The select of the poll loop: the timer fires every PollInterval and the
\* condition runs again, unless the deadline of the context has passed by
\* then, which ends the poll with the context's error.
PollTick(r) ==
    /\ pc[r] = "poll"
    /\ IF nextTick[r] < Deadline
       THEN /\ elapsed' = [elapsed EXCEPT ![r] = Max(@, nextTick[r])]
            /\ nextTick' = [nextTick EXCEPT ![r] = @ + PollInterval]
            /\ pc' = [pc EXCEPT ![r] = "get"]
            /\ UNCHANGED <<pollErr, timedOutAt, log>>
       ELSE waitForPodReadyReturns(r, "timeout", Max(elapsed[r], Deadline))
    /\ UNCHANGED <<err, pod, stdout, source, fs, reqs>>
    /\ UNCHANGED <<stderr, errText, unpacked, stack>>

\* The error of StreamWithContext returned as it is.
StreamErrorUnwrapped(cause, captured) == <<cause>>

\* fmt.Errorf("stream error: %v\nstderr: %s", err, stderr.String()): the
\* text of the error, as the parts the format puts together.
StreamError(cause, captured) == <<"stream error: ", cause, "stderr: ", captured>>

\* The ways exec.StreamWithContext fails once the command runs, each with
\* what the command had written to its standard error by then: tar exits
\* nonzero after a message, or the connection breaks.
StreamFailures ==
    {[cause |-> "exit code 1", stderr |-> "tar: read error"],
     [cause |-> "transport", stderr |-> ""]}

\* copyFromPod up to the call of exec.StreamWithContext: the exec request
\* is built and posted. The API server refuses it unless the pod exists
\* and its container runs; the refusal is the error of StreamWithContext,
\* wrapped with the captured stderr.
StreamBegin(r) ==
    /\ pc[r] = "copy"
    /\ reqs' = Issued(r, "exec")
    /\ IF pod.exists /\ pod.phase = "Running"
       THEN /\ pc' = [pc EXCEPT ![r] = "stream"]
            /\ log' = Logged(r, <<Ev("exec", "begin")>>)
            /\ UNCHANGED <<err, errText>>
       ELSE /\ Return(r, "stream")
            /\ errText' = [errText EXCEPT ![r] = StreamError("refused", stderr[r])]
            /\ log' = Logged(r, <<Ev("exec", "begin"), Ev("exec", "fail")>>)
    /\ UNCHANGED <<pollErr, elapsed, nextTick, timedOutAt, pod, stdout, source, fs>>
    /\ UNCHANGED <<stderr, unpacked, stack>>

\* A copyFromPod that posts the exec again when the stream has failed.
StreamEndRetrying(r) ==
    /\ pc[r] = "stream"
    /\ \/ /\ pc' = [pc EXCEPT ![r] = "copy"]
          /\ log' = Logged(r, <<Ev("exec", "fail")>>)
          /\ UNCHANGED <<stdout, source>>
       \/ /\ pod.exists /\ pod.phase = "Running"
          /\ \E v \in Volumes : \E a \in TarOutputs(v) :
                /\ stdout' = [stdout EXCEPT ![r] = a]
                /\ source' = [source EXCEPT ![r] = v]
          /\ pc' = [pc EXCEPT ![r] = "untar"]
          /\ log' = Logged(r, <<Ev("exec", "ok"), Ev("unpack", "begin")>>)
    /\ UNCHANGED <<err, pollErr, elapsed, nextTick, timedOutAt, pod, fs, reqs>>
    /\ UNCHANGED <<stderr, errText, unpacked, stack>>

\* A copyFromPod that unpacks while it receives: when the stream breaks,
\* the header of the volume's root has already been materialized.
StreamEndUnpackingAsReceived(r) ==
    /\ pc[r] = "stream"
    /\ \/ /\ Return(r, "stream")
          /\ \E f \in StreamFailures :
                /\ stderr' = [stderr EXCEPT ![r] = f.stderr]
                /\ errText' = [errText EXCEPT ![r] = StreamError(f.cause, f.stderr)]
          /\ log' = Logged(r, <<Ev("exec", "fail")>>)
          /\ fs' = untar(<<Entry(<<".">>, "dir", "")>>, Dest, fs).fs
          /\ UNCHANGED <<stdout, source>>
       \/ /\ pod.exists /\ pod.phase = "Running"
          /\ \E v \in Volumes : \E a \in TarOutputs(v) :
                /\ stdout' = [stdout EXCEPT ![r] = a]
                /\ source' = [source EXCEPT ![r] = v]
          /\ pc' = [pc EXCEPT ![r] = "untar"]
          /\ log' = Logged(r, <<Ev("exec", "ok"), Ev("unpack", "begin")>>)
          /\ UNCHANGED <<err, stderr, errText, fs>>
    /\ UNCHANGED <<pollErr, elapsed, nextTick, timedOutAt, pod, reqs>>
    /\ UNCHANGED <<unpacked, stack>>

\* exec.StreamWithContext returns: with an error (the command exited
\* nonzero, the container went away, the connection broke), or with nil
\* after the whole archive of the volume has been buffered in stdout.
StreamEnd(r) ==
    /\ pc[r] = "stream"
    /\ \/ /\ Return(r, "stream")
          /\ \E f \in StreamFailures :
                /\ stderr' = [stderr EXCEPT ![r] = f.stderr]
                /\ errText' = [errText EXCEPT ![r] = StreamError(f.cause, f.stderr)]
          /\ log' = Logged(r, <<Ev("exec", "fail")>>)
          /\ UNCHANGED <<stdout, source>>
       \/ /\ pod.exists /\ pod.phase = "Running"
          /\ \E v \in Volumes : \E a \in TarOutputs(v) :
                /\ stdout' = [stdout EXCEPT ![r] = a]
                /\ source' = [source EXCEPT ![r] = v]
          /\ pc' = [pc EXCEPT ![r] = "untar"]
          /\ log' = Logged(r, <<Ev("exec", "ok"), Ev("unpack", "begin")>>)
          /\ UNCHANGED <<err, stderr, errText>>
    /\ UNCHANGED <<pollErr, elapsed, nextTick, timedOutAt, pod, fs, reqs>>
    /\ UNCHANGED <<unpacked, stack>>

\* return untar(bytes.NewReader(stdout.Bytes()), localDir), and in run the
\* return of copyFromPod's error.
Untar(r) ==
    /\ pc[r] = "untar"
    /\ LET res == untar(stdout[r], Dest, fs) IN
         /\ fs' = res.fs
         /\ stdout' = [stdout EXCEPT ![r] = <<>>]
         /\ source' = [source EXCEPT ![r] = <<>>]
         /\ unpacked' = [unpacked EXCEPT ![r] = stdout[r]]
         /\ IF res.err
            THEN /\ Return(r, "archive")
                 /\ log' = Logged(r, <<Ev("unpack", "fail")>>)
            ELSE /\ pc' = [pc EXCEPT ![r] = "delete"]
                 /\ log' = Logged(r, <<Ev("unpack", "ok")>>)
                 /\ UNCHANGED err
    /\ UNCHANGED <<pollErr, elapsed, nextTick, timedOutAt, pod, reqs>>
    /\ UNCHANGED <<stderr, errText, stack>>

\* What Pods(namespace).Delete answers: NotFound when there is no such pod,
\* otherwise the pod is deleted or the API server reports an error.
DeleteAnswers == IF pod.exists THEN {"deleted", "error"} ELSE {"notfound"}

\* A run that removes what it has extracted when the deletion fails.
DeletePodRollingBack(r) ==
    /\ pc[r] = "delete"
    /\ reqs' = Issued(r, "delete")
    /\ \E a \in DeleteAnswers :
          IF a = "deleted"
          THEN /\ pod' = NoPod
               /\ Return(r, "nil")
               /\ log' = Logged(r, <<Ev("delete", "begin"), Ev("delete", "ok")>>)
               /\ UNCHANGED fs
          ELSE /\ Return(r, "delete")
               /\ log' = Logged(r, <<Ev("delete", "begin"), Ev("delete", "fail")>>)
               /\ fs' = [q \in {q \in DOMAIN fs : ~IsPrefix(Dest, q)} |-> fs[q]]
               /\ UNCHANGED pod
    /\ UNCHANGED <<pollErr, elapsed, nextTick, timedOutAt, stdout, source>>
    /\ UNCHANGED <<stderr, errText, unpacked, stack>>

\* return clientset.CoreV1().Pods(namespace).Delete(ctx, podName, ...)
DeletePod(r) ==
    /\ pc[r] = "delete"
    /\ reqs' = Issued(r, "delete")
    /\ \E a \in DeleteAnswers :
          IF a = "deleted"
          THEN /\ pod' = NoPod
               /\ Return(r, "nil")
               /\ log' = Logged(r, <<Ev("delete", "begin"), Ev("delete", "ok")>>)
          ELSE /\ Return(r, "delete")
               /\ log' = Logged(r, <<Ev("delete", "begin"), Ev("delete", "fail")>>)
               /\ UNCHANGED pod
    /\ UNCHANGED <<pollErr, elapsed, nextTick, timedOutAt, stdout, source, fs>>
    /\ UNCHANGED <<stderr, errText, unpacked, stack>>

\* ctx := context.Background(): the context of a run is never cancelled and
\* nothing subscribes to signals, so an interrupt (SIGINT, SIGTERM) of the
\* process ends it where it stands, by the Go runtime's default: no error
\* is returned and no deferred or later statement runs; its timers and
\* buffers go with it.
Interrupt(r) ==
    /\ pc[r] \notin {"done", "killed"}
    /\ pc' = [pc EXCEPT ![r] = "killed"]
    /\ log' = Logged(r, <<Ev(pc[r], "interrupt")>>)
    /\ elapsed' = [elapsed EXCEPT ![r] = 0]
    /\ nextTick' = [nextTick EXCEPT ![r] = 0]
    /\ stdout' = [stdout EXCEPT ![r] = <<>>]
    /\ source' = [source EXCEPT ![r] = <<>>]
    /\ UNCHANGED <<err, pollErr, timedOutAt, pod, fs, reqs>>
    /\ UNCHANGED <<stderr, errText, unpacked, stack>>

\* The kubelet starts the container of the pod.
ContainerStarts ==
    /\ pod.exists /\ pod.phase = "Pending"
    /\ pod' = [pod EXCEPT !.phase = "Running",
                          !.conditions =
                              {Cond("PodScheduled", "True"), Cond("ContainersReady", "False"),
                               Cond("Ready", "False")}]
    /\ UNCHANGED <<pc, err, pollErr, elapsed, nextTick, timedOutAt, stdout, source, fs, reqs, log>>
    /\ UNCHANGED <<stderr, errText, unpacked, stack>>

\* The kubelet reports the running pod Ready.
PodBecomesReady ==
    /\ pod.exists /\ pod.phase = "Running" /\ ~PodReady(pod)
    /\ pod' = [pod EXCEPT !.conditions =
                  {Cond("PodScheduled", "True"), Cond("ContainersReady", "True"),
                   Cond("Ready", "True")}]
    /\ UNCHANGED <<pc, err, pollErr, elapsed, nextTick, timedOutAt, stdout, source, fs, reqs, log>>
    /\ UNCHANGED <<stderr, errText, unpacked, stack>>

\* The container exits; with RestartPolicyNever it is not started again.
ContainerCrashes ==
    /\ pod.exists /\ pod.phase = "Running"
    /\ pod' = [pod EXCEPT !.phase = "Failed",
                          !.conditions =
                              {Cond("PodScheduled", "True"), Cond("ContainersReady", "False"),
                               Cond("Ready", "False")}]
    /\ UNCHANGED <<pc, err, pollErr, elapsed, nextTick, timedOutAt, stdout, source, fs, reqs, log>>
    /\ UNCHANGED <<stderr, errText, unpacked, stack>>

\* Somebody else removes the pod (kubectl delete, eviction, namespace
\* cleanup).
ExternalDelete ==
    /\ pod.exists
    /\ pod' = NoPod
    /\ UNCHANGED <<pc, err, pollErr, elapsed, nextTick, timedOutAt, stdout, source, fs, reqs, log>>
    /\ UNCHANGED <<stderr, errText, unpacked, stack>>

Next ==
    \/ \E r \in Runs : GetClient(r)
    \/ \E r \in Runs : CreatePod(r)
    \/ \E r \in Runs : PollCondition(r)
    \/ \E r \in Runs : PollTick(r)
    \/ \E r \in Runs : StreamBegin(r)
    \/ \E r \in Runs : StreamEnd(r)
    \/ \E r \in Runs : Untar(r)
    \/ \E r \in Runs : DeletePod(r)
    \/ \E r \in Runs : Interrupt(r)
    \/ ContainerStarts
    \/ PodBecomesReady
    \/ ContainerCrashes

\* Two runs and the kubelet; nobody else touches the pod.
Spec == Init /\ [][Next]_vars

\* The same, in a namespace where the pod may be removed from outside at
\* any moment.
NextEvict == Next \/ ExternalDelete

SpecEvict == Init /\ [][NextEvict]_vars

\* The state of the extraction tool, which the monitoring component never
\* touches.
extractor ==
    <<pc, err, pollErr, elapsed, nextTick, timedOutAt, pod, stdout, source,
      stderr, errText, unpacked, fs, reqs, log>>

Built == {stack.built[i] : i \in DOMAIN stack.built}

\* NewMonitoring calls mon.provision(ctx, args, opts...).
ProvisionBegins ==
    /\ stack.at = "idle"
    /\ stack' = [stack EXCEPT !.at = "provision"]
    /\ UNCHANGED extractor

\* The next constructor of provision returns its resource: its arguments
\* are fields of the resources assigned so far. Reading a field of a
\* resource that is not assigned yet is a nil pointer dereference.
Construct(p) ==
    /\ stack.at = "provision"
    /\ Len(stack.built) < Len(ProvisionOrder)
    /\ p = ProvisionOrder[Len(stack.built) + 1]
    /\ stack' = IF InputsOf(p) \subseteq Built
                THEN [stack EXCEPT !.built = Append(@, p),
                                   !.took = [@ EXCEPT ![p] = InputsOf(p)]]
                ELSE [stack EXCEPT !.at = "panic"]
    /\ UNCHANGED extractor

\* The next constructor returns an error and provision returns it.
ConstructFails ==
    /\ stack.at = "provision"
    /\ Len(stack.built) < Len(ProvisionOrder)
    /\ stack' = [stack EXCEPT !.at = "failed"]
    /\ UNCHANGED extractor

\* provision returns nil after the last network policy.
ProvisionReturns ==
    /\ stack.at = "provision"
    /\ Len(stack.built) = Len(ProvisionOrder)
    /\ stack' = [stack EXCEPT !.at = "done"]
    /\ UNCHANGED extractor

\* The engine resolves the outputs of a constructed resource once the
\* outputs it was given are resolved.
Resolve(p) ==
    /\ p \in Built \ stack.resolved
    /\ stack.took[p] \subseteq stack.resolved
    /\ stack' = [stack EXCEPT !.resolved = @ \cup {p}]
    /\ UNCHANGED extractor

InitProvision ==
    /\ Init
    /\ fs = FsBare

NextProvision ==
    \/ ProvisionBegins
    \/ \E p \in Resources : Construct(p)
    \/ ConstructFails
    \/ ProvisionReturns
    \/ \E p \in Resources : Resolve(p)

\* The deployment of the monitoring component alone.
SpecProvision == InitProvision /\ [][NextProvision]_vars

\* The phases and the condition types and statuses a fetched pod status may
\* carry (corev1.PodPhase, corev1.PodConditionType, corev1.ConditionStatus).
Phases == {"Pending", "Running", "Succeeded", "Failed", "Unknown"}
Conditions ==
    {Cond(t, st) : t \in {"PodScheduled", "ContainersReady", "Ready"},
                   st \in {"True", "False"}}

\* The readiness wait alone: run r1 has created the pod and stands at the
\* first Get of the poll; the pod shows any phase with any conditions and
\* nobody changes it.
InitPoll ==
    /\ pc = [r \in Runs |-> IF r = "r1" THEN "get" ELSE "start"]
    /\ err = [r \in Runs |-> "nil"]
    /\ pollErr = [r \in Runs |-> IF r = "r1" THEN "pending" ELSE "unset"]
    /\ elapsed = [r \in Runs |-> 0]
    /\ nextTick = [r \in Runs |-> IF r = "r1" THEN PollInterval ELSE 0]
    /\ timedOutAt = [r \in Runs |-> -1]
    /\ \E ph \in Phases : \E cs \in SUBSET Conditions :
          pod = [exists |-> TRUE, owner |-> "r1", phase |-> ph, conditions |-> cs]
    /\ stdout = [r \in Runs |-> <<>>]
    /\ source = [r \in Runs |-> <<>>]
    /\ stderr = [r \in Runs |-> ""]
    /\ errText = [r \in Runs |-> <<>>]
    /\ unpacked = [r \in Runs |-> <<>>]
    /\ fs = FsBare
    /\ reqs = [r \in Runs |-> IF r = "r1" THEN {"create"} ELSE {}]
    /\ log = [r \in Runs |->
                IF r = "r1"
                THEN << Ev("session", "begin"), Ev("session", "ok"),
                        Ev("create", "begin"), Ev("create", "ok"),
                        Ev("wait", "begin") >>
                ELSE <<>>]
    /\ stack = NoStack

NextPoll ==
    \/ \E r \in Runs : PollCondition(r)
    \/ \E r \in Runs : PollTick(r)

SpecPoll == InitPoll /\ [][NextPoll]_vars

\* args = x.defaults(args)
Defaults ==
    /\ stack.at = "new"
    /\ stack' = [stack EXCEPT
          !.at = "defaulted",
          !.trace = Append(@, "defaults"),
          !.registry = CASE stack.kind = "jaeger" -> NormalizeRegistry(stack.Registry)
                         [] stack.kind = "perses" -> PersesRegistry(stack.Registry)
                         [] OTHER -> @,
          !.input = IF stack.kind = "monitoring" /\ @ \in {"absent", "empty"}
                    THEN "valid" ELSE @]
    /\ UNCHANGED extractor

\* A constructor that registers the component before it checks the
\* arguments.
CheckBeginsRegistered ==
    /\ stack.at = "defaulted"
    /\ stack' =
          IF stack.kind \in {"jaeger", "perses"} /\ stack.input = "absent"
          THEN [stack EXCEPT !.at = "returned", !.trace = Append(@, "check"),
                             !.registered = TRUE,
                             !.merr = "error", !.ret = "error"]
          ELSE [stack EXCEPT !.at = "wait", !.trace = Append(@, "check"),
                             !.registered = TRUE,
                             !.wg = Checks, !.cerr = <<>>, !.cb = "pending"]
    /\ UNCHANGED extractor

\* x.check(args) up to wg.Wait(): the first-level checks return the error
\* of a nil PrometheusURL at once; otherwise wg.Add(checks), the channel
\* is made and the callback is handed to ApplyT.
CheckBegins ==
    /\ stack.at = "defaulted"
    /\ stack' =
          IF stack.kind \in {"jaeger", "perses"} /\ stack.input = "absent"
          THEN [stack EXCEPT !.at = "returned", !.trace = Append(@, "check"),
                             !.merr = "error", !.ret = "error"]
          ELSE [stack EXCEPT !.at = "wait", !.trace = Append(@, "check"),
                             !.wg = Checks, !.cerr = <<>>, !.cb = "pending"]
    /\ UNCHANGED extractor

\* The engine runs the callback once the checked output has resolved to a
\* known value; for an output that stays unknown (a preview) it never
\* does. The callback sends what it has to report: the send blocks when
\* the channel is full, since check receives only after wg.Wait().
CallbackSends ==
    /\ stack.cb = "pending" /\ stack.known
    /\ LET e == Sent(stack.kind, stack.input) IN
         stack' = IF e = "none" THEN [stack EXCEPT !.cb = "sent"]
                  ELSE IF Len(stack.cerr) >= Capacity THEN [stack EXCEPT !.cb = "blocked"]
                  ELSE [stack EXCEPT !.cb = "sent", !.cerr = Append(@, e)]
    /\ UNCHANGED extractor

\* defer wg.Done()
CallbackDone ==
    /\ stack.cb = "sent"
    /\ stack' = [stack EXCEPT !.cb = "done", !.wg = @ - 1]
    /\ UNCHANGED extractor

\* wg.Wait() returns, close(cerr), the loop over cerr appends what it
\* receives with multierr.Append (which drops nil), and check returns; the
\* constructor returns a non-nil error of check.
WaitReturns ==
    /\ stack.at = "wait" /\ stack.wg = 0
    /\ LET failed == \E i \in DOMAIN stack.cerr : stack.cerr[i] # "nil" IN
         stack' = [stack EXCEPT
             !.closed = TRUE, !.cerr = <<>>,
             !.merr = IF failed THEN "error" ELSE "nil",
             !.at = IF failed THEN "returned" ELSE "checked",
             !.ret = IF failed THEN "error" ELSE @]
    /\ UNCHANGED extractor

\* ctx.RegisterComponentResource(...)
Register ==
    /\ stack.at = "checked"
    /\ \/ stack' = [stack EXCEPT !.at = "registered", !.trace = Append(@, "register"),
                                  !.registered = TRUE]
       \/ stack' = [stack EXCEPT !.at = "returned", !.trace = Append(@, "register"),
                                  !.ret = "error"]
    /\ UNCHANGED extractor

\* x.provision(ctx, args, opts...), as one step: it returns nil, or the
\* error of the resource it failed at.
Provision ==
    /\ stack.at = "registered"
    /\ \/ stack' = [stack EXCEPT !.at = "provisioned", !.trace = Append(@, "provision"),
                                  !.provisioned = TRUE]
       \/ stack' = [stack EXCEPT !.at = "returned", !.trace = Append(@, "provision"),
                                  !.provisioned = TRUE, !.ret = "error"]
    /\ UNCHANGED extractor

\* x.outputs(ctx) and the return of the constructor.
Outputs ==
    /\ stack.at = "provisioned"
    /\ \E res \in {"ok", "error"} :
          stack' = [stack EXCEPT !.at = "returned", !.trace = Append(@, "outputs"),
                                 !.ret = res]
    /\ UNCHANGED extractor

\* One constructor call: any of the three constructors, with any checked
\* argument and any registry. A nil argument is no output, and the default
\* template of Monitoring.defaults is a plain string: both are known.
InitNew ==
    /\ pc = [r \in Runs |-> "start"]
    /\ err = [r \in Runs |-> "nil"]
    /\ pollErr = [r \in Runs |-> "unset"]
    /\ elapsed = [r \in Runs |-> 0]
    /\ nextTick = [r \in Runs |-> 0]
    /\ timedOutAt = [r \in Runs |-> -1]
    /\ pod = NoPod
    /\ stdout = [r \in Runs |-> <<>>]
    /\ source = [r \in Runs |-> <<>>]
    /\ stderr = [r \in Runs |-> ""]
    /\ errText = [r \in Runs |-> <<>>]
    /\ unpacked = [r \in Runs |-> <<>>]
    /\ fs = FsBare
    /\ reqs = [r \in Runs |-> {}]
    /\ log = [r \in Runs |-> <<>>]
    /\ \E k \in Kinds : \E v \in InputsFor(k) : \E kn \in BOOLEAN : \E reg \in Registries :
          /\ v = "absent" => kn
          /\ stack = [NoStack EXCEPT !.at = "new", !.kind = k, !.input = v,
                                      !.known = kn, !.Registry = reg]

NextNew ==
    \/ Defaults
    \/ CheckBegins
    \/ CallbackSends
    \/ CallbackDone
    \/ WaitReturns
    \/ Register
    \/ Provision
    \/ Outputs

SpecNew == InitNew /\ [][NextNew]_vars

\* untar alone: run r1 stands right after StreamWithContext returned nil
\* (part_000:235) with an arbitrary archive in its stdout buffer; r2 has not
\* started.
InitUntar ==
    /\ pc = [r \in Runs |-> IF r = "r1" THEN "untar" ELSE "start"]
    /\ err = [r \in Runs |-> "nil"]
    /\ pollErr = [r \in Runs |-> IF r = "r1" THEN "nil" ELSE "unset"]
    /\ elapsed = [r \in Runs |-> 0]
    /\ nextTick = [r \in Runs |-> 0]
    /\ timedOutAt = [r \in Runs |-> -1]
    /\ pod = [exists |-> TRUE, owner |-> "r1", phase |-> "Running",
              conditions |-> {Cond("PodScheduled", "True"), Cond("ContainersReady", "True"),
                              Cond("Ready", "True")}]
    /\ \E a \in Archives : stdout = [r \in Runs |-> IF r = "r1" THEN a ELSE <<>>]
    /\ source = [r \in Runs |-> <<>>]
    /\ stderr = [r \in Runs |-> ""]
    /\ errText = [r \in Runs |-> <<>>]
    /\ unpacked = [r \in Runs |-> <<>>]
    /\ fs \in InitialFs
    /\ reqs = [r \in Runs |-> IF r = "r1" THEN {"create", "get", "exec"} ELSE {}]
    /\ log = [r \in Runs |->
                IF r = "r1"
                THEN << Ev("session", "begin"), Ev("session", "ok"),
                        Ev("create", "begin"), Ev("create", "ok"),
                        Ev("wait", "begin"), Ev("wait", "ok"),
                        Ev("exec", "begin"), Ev("exec", "ok"),
                        Ev("unpack", "begin") >>
                ELSE <<>>]
    /\ stack = NoStack

NextUntar == \E r \in Runs : Untar(r)

SpecUntar == InitUntar /\ [][NextUntar]_vars

--------------------------------------------------------------------------
(***************************************************************************)
(* Properties                                                              *)
(***************************************************************************)

Began(r, stage) == \E k \in DOMAIN log[r] : log[r][k] = Ev(stage, "begin")
Succeeded(r, stage) == \E k \in DOMAIN log[r] : log[r][k] = Ev(stage, "ok")
Failed(r, stage) == \E k \in DOMAIN log[r] : log[r][k] = Ev(stage, "fail")

\* The places of run where the pod of the run is in use.
PostCreate == {"get", "poll", "copy", "stream", "untar", "delete"}

\* Run r was interrupted while it stood at one of the places in where.
InterruptedIn(r, where) ==
    \E k \in DOMAIN log[r] : log[r][k].ev = "interrupt" /\ log[r][k].stage \in where

\* C1: in every run the stages begin in the order session, create, wait,
\* exec, unpack, delete, each one only right after the stage before it has
\* ended successfully: none begins before the previous one has completed,
\* and none begins after an earlier stage has failed.
C1_StagesInSequence ==
    \A r \in Runs : \A k \in DOMAIN log[r] :
        log[r][k].ev = "begin" =>
            IF log[r][k].stage = "session" THEN k = 1
            ELSE /\ k > 1
                 /\ log[r][k - 1] = Ev(Stages[StageIndex(log[r][k].stage) - 1], "ok")

\* C2: when the readiness wait ends with the timeout error, the run aborts
\* with that error and never issues the remote exec of the archiving
\* command.
C2_TimeoutAbortsRun ==
    \A r \in Runs :
        pollErr[r] = "timeout" =>
            /\ "exec" \notin reqs[r]
            /\ pc[r] \notin {"stream", "untar", "delete"}
            /\ pc[r] = "done" => err[r] = "timeout"

\* C3: no run returns (after a readiness, stream or unpack failure) with
\* the pod it created still existing.
C3_PodDeletedOnEveryExit ==
    \A r \in Runs :
        (pc[r] = "done" /\ ~Failed(r, "delete")) =>
            ~(pod.exists /\ pod.owner = r)

\* C4: pod deletion is requested if and only if creation, the readiness
\* wait, the remote exec and the unpack all succeeded; and a run in which a
\* stage after creation failed returns with its pod still existing.
C4_DeleteOnlyAfterAllSucceeded ==
    \A r \in Runs :
        LET allOk == \A st \in {"create", "wait", "exec", "unpack"} : Succeeded(r, st)
        IN  /\ "delete" \in reqs[r] => allOk
            /\ (pc[r] = "done" /\ allOk) => "delete" \in reqs[r]
            /\ (pc[r] = "done" /\ \E st \in {"wait", "exec", "unpack", "delete"} : Failed(r, st))
                  => (pod.exists /\ pod.owner = r)

\* The tree v is found under the destination root of filesystem f: every
\* relative path of v exists there, a directory as a directory and a
\* regular file as a regular file with the same content.
RoundTrip(v, f) ==
    \A p \in DOMAIN v :
        LET q == Dest \o p IN
            /\ Exists(f, q)
            /\ IF v[p].kind = "dir" THEN IsDir(f, q)
               ELSE IsFile(f, q) /\ f[q].data = v[p].data

C7_FetchErrorFailsRun ==
    \A r \in Runs :
        pollErr[r] = "error" =>
            /\ pc[r] \notin {"poll", "get"}
            /\ pc[r] \notin {"stream", "untar", "delete"}
            /\ pc[r] = "done" => err[r] = "error"

\* C8: a status fetch that reports the pod as not found does not end the
\* wait: it counts as "not yet ready" and polling goes on.
C8_NotFoundTolerated ==
    \A r \in Runs : pollErr[r] # "notfound"

\* C9: an interrupt that arrives while the run is blocked in the readiness
\* polling or in the exec stream makes the run return a cancellation error.
C9_CancellationError ==
    \A r \in Runs :
        InterruptedIn(r, {"poll", "get", "stream"}) =>
            /\ pc[r] \in {"done"}
            /\ err[r] = "cancelled"

\* C10: two runs collide on the pod name. While the pod of one run exists
\* and that run uses it, no other run is past creation; and a run whose
\* creation failed has issued no request but the creation: no status
\* fetch, no exec, no delete.
C10_NameCollision ==
    /\ \A r, q \in Runs :
          (r # q /\ pc[r] \in PostCreate) =>
              /\ pod.exists /\ pod.owner = r
              /\ pc[q] \notin PostCreate
    /\ \A r \in Runs : Failed(r, "create") => reqs[r] = {"create"}

\* One run is waiting on or using its pod and the creation of the other
\* run has failed.
C10_Witness ==
    \E r, q \in Runs :
        /\ r # q
        /\ pc[r] \in PostCreate /\ pod.exists /\ pod.owner = r
        /\ pc[q] = "done" /\ err[q] = "create" /\ reqs[q] = {"create"}

\* How many times event e stands in the log of run r.
Count(r, e) == Cardinality({k \in DOMAIN log[r] : log[r][k] = e})

\* C11: a run whose pod creation is rejected returns the create error at
\* once: it has issued no status fetch, no exec and no delete, its
\* readiness wait never began and its untar has read and written nothing.
C11_CreateErrorReturnsAtOnce ==
    \A r \in Runs :
        Failed(r, "create") =>
            /\ pc[r] = "done" /\ err[r] = "create"
            /\ reqs[r] \cap {"get", "exec", "delete"} = {}
            /\ ~Began(r, "wait") /\ ~Began(r, "unpack")
            /\ unpacked[r] = <<>>

\* The API server has rejected the creation of a run although no pod of
\* the name existed.
C11_Witness ==
    \E r \in Runs :
        /\ Failed(r, "create") /\ pc[r] = "done" /\ err[r] = "create"
        /\ ~pod.exists /\ \A q \in Runs : ~Succeeded(q, "create")

\* C12: when the exec stream fails, copyFromPod's error is the stream
\* error whose text carries the captured standard error, and the run
\* returns that error.
C12_StreamErrorCarriesStderr ==
    \A r \in Runs :
        Failed(r, "exec") =>
            /\ pc[r] = "done" /\ err[r] = "stream"
            /\ Len(errText[r]) = 4
            /\ errText[r][1] = "stream error: "
            /\ errText[r][3] = "stderr: "
            /\ errText[r][4] = stderr[r]

\* The command failed after writing to its standard error, and the run
\* has returned the stream error with that text.
C12_Witness ==
    \E r \in Runs :
        /\ pc[r] = "done" /\ err[r] = "stream"
        /\ stderr[r] = "tar: read error"
        /\ errText[r] = StreamError("exit code 1", "tar: read error")

\* C17: the process exits with code 0 if and only if every stage of the
\* run (session, create, wait, exec, unpack, delete) succeeded.
C17_ExitCodeZeroIffAllStagesOk ==
    \A r \in Runs :
        pc[r] = "done" =>
            (ExitCode(err[r]) = 0 <=>
                \A i \in DOMAIN Stages : Succeeded(r, Stages[i]))

\* C18: in every run the pod creation, the remote exec and the pod
\* deletion are each requested at most once, whatever fails, and so is
\* every other stage begun at most once.
C18_NoStageTwice ==
    \A r \in Runs : \A i \in DOMAIN Stages :
        Count(r, Ev(Stages[i], "begin")) <= 1

\* A run has ended with the stream error after one creation and one exec.
C18_Witness ==
    \E r \in Runs :
        /\ pc[r] = "done" /\ err[r] = "stream"
        /\ Count(r, Ev("create", "begin")) = 1
        /\ Count(r, Ev("exec", "begin")) = 1
        /\ Count(r, Ev("exec", "fail")) = 1

\* C19: when the pod deletion fails after a successful extraction, the run
\* returns the delete error, the process exits nonzero, and the step of the
\* failed deletion leaves the local filesystem as the unpack left it.
C19_DeleteErrorKeepsData ==
    /\ [](\A r \in Runs :
            Failed(r, "delete") =>
                /\ pc[r] = "done" /\ err[r] = "delete"
                /\ ExitCode(err[r]) # 0
                /\ Succeeded(r, "unpack"))
    /\ [][\A r \in Runs :
            (pc[r] = "delete" /\ pc'[r] = "done") => fs' = fs]_vars

\* The deletion of a run has failed after it unpacked a regular file.
C19_Witness ==
    \E r \in Runs :
        /\ pc[r] = "done" /\ err[r] = "delete"
        /\ \E k \in DOMAIN unpacked[r] : unpacked[r][k].typeflag = "reg"
        /\ \E q \in DOMAIN fs : IsPrefix(Dest, q) /\ IsFile(fs, q)

\* The nodes of f right below directory p.
Children(f, p) == {q \in DOMAIN f : Len(q) = Len(p) + 1 /\ IsPrefix(p, q)}

\* Run r's untar returns in this step.
UntarReturns(r) == pc[r] = "untar" /\ pc'[r] \in {"delete", "done"}

\* C13: after any unpack, no file or directory outside the destination
\* root has been created or modified, and an archive with an entry whose
\* path resolves outside the root has been refused with the archive error.
C13_NothingOutsideDest ==
    [][\A r \in Runs :
        UntarReturns(r) =>
            /\ \A q \in DOMAIN fs' :
                  ~IsPrefix(Dest, q) => (q \in DOMAIN fs /\ fs'[q] = fs[q])
            /\ (\E k \in DOMAIN stdout[r] :
                    /\ stdout[r][k].typeflag \in {"dir", "reg"}
                    /\ ~IsPrefix(Dest, Join(Dest, stdout[r][k].name))
                    /\ \A j \in 1..k : stdout[r][j].typeflag # "corrupt")
                  => err'[r] = "archive"]_vars

IsSupported(e) == e.typeflag # "symlink"

\* The archive without its entries of a type flag untar has no case for.
Supported(a) == SelectSeq(a, IsSupported)

\* C14: entries that are neither directories nor regular files change
\* nothing and stop nothing: untar returns the error and leaves the
\* filesystem it would for the same archive without those entries.
C14_OtherTypesSkipped ==
    [][\A r \in Runs :
        UntarReturns(r) =>
            LET res == untar(Supported(stdout[r]), Dest, fs) IN
                /\ fs' = res.fs
                /\ res.err <=> pc'[r] = "done"]_vars

\* An archive that began with a symlink entry was unpacked without error:
\* nothing stands at the symlink's path and a regular file that came after
\* it is there.
C14_Witness ==
    \E r \in Runs :
        /\ pc[r] = "delete" /\ Len(unpacked[r]) >= 2
        /\ unpacked[r][1] = Entry(<<".", "l">>, "symlink", "")
        /\ unpacked[r][2] = Entry(<<".", "b">>, "reg", "y")
        /\ ~Exists(fs, Dest \o <<"l">>)
        /\ IsFile(fs, Dest \o <<"b">>) /\ fs[Dest \o <<"b">>].data = "y"

\* Where entry e of an archive goes.
Target(e) == Join(Dest, e.name)

\* The directory and regular-file entries of a lie below the destination
\* at pairwise distinct paths, none of them below a regular file of a, and
\* no header of a is damaged.
ConsistentTree(a) ==
    /\ \A i \in DOMAIN a : a[i].typeflag # "corrupt"
    /\ \A i \in DOMAIN a :
          a[i].typeflag \in {"dir", "reg"} => IsPrefix(Dest, Target(a[i]))
    /\ \A i, j \in DOMAIN a :
          (i # j /\ a[i].typeflag \in {"dir", "reg"} /\ a[j].typeflag \in {"dir", "reg"})
             => /\ Target(a[i]) # Target(a[j])
                /\ a[i].typeflag = "reg" => ~IsPrefix(Target(a[i]), Target(a[j]))

\* The orders in which the entries of a may arrive.
Orderings(a) ==
    {[i \in DOMAIN a |-> a[p[i]]] :
        p \in {q \in [DOMAIN a -> DOMAIN a] : \A i, j \in DOMAIN a : i # j => q[i] # q[j]}}

C16_EmptyVolumeEmptyDest ==
    [][\A r \in Runs :
        (UntarReturns(r) /\ source[r] = VolEmpty) =>
            /\ pc'[r] = "delete"
            /\ IsDir(fs', Dest)
            /\ Children(fs', Dest) = {}]_vars

\* C16, amended: the stream of an empty volume is unpacked without error
\* and the destination exists afterwards as a directory; it is empty when
\* it was missing or empty before, and it holds exactly what it held
\* before otherwise.
C16_EmptyVolumeAddsNothing ==
    [][\A r \in Runs :
        (UntarReturns(r) /\ source[r] = VolEmpty) =>
            /\ pc'[r] = "delete"
            /\ IsDir(fs', Dest)
            /\ \A q \in DOMAIN fs' : q # Dest => (q \in DOMAIN fs /\ fs'[q] = fs[q])
            /\ Children(fs, Dest) = {} => Children(fs', Dest) = {}]_vars

\* A run over an empty volume has succeeded into a destination that is
\* now an empty directory.
C16_Witness ==
    \E r \in Runs :
        /\ pc[r] = "done" /\ err[r] = "nil"
        /\ unpacked[r] = <<Entry(<<".">>, "dir", "")>>
        /\ IsDir(fs, Dest) /\ Dest \in DOMAIN fs
        /\ Children(fs, Dest) = {}

\* The place of resource p in the order of construction, 0 when p is not
\* constructed.
BuiltAt(p) ==
    IF p \in Built THEN CHOOSE i \in DOMAIN stack.built : stack.built[i] = p ELSE 0

\* C20: Prometheus, Perses, Jaeger and the OTEL collector are constructed
\* in that order after the namespace, no constructor reads an output of a
\* resource that is not constructed, and every resource was given outputs
\* only of resources constructed before it, so that none waits on itself
\* or on a later one.
C20_AcyclicDependencies ==
    /\ stack.at # "panic"
    /\ \A p \in Built : \A q \in stack.took[p] :
          q \in Built /\ BuiltAt(q) < BuiltAt(p)
    /\ \A i, j \in 1..5 :
          (i < j /\ ProvisionOrder[j] \in Built) =>
              /\ ProvisionOrder[i] \in Built
              /\ BuiltAt(ProvisionOrder[i]) < BuiltAt(ProvisionOrder[j])
    /\ \A p \in stack.resolved : stack.took[p] \subseteq stack.resolved

\* The collector is constructed with the outputs of the namespace, Jaeger
\* and Prometheus, and all four parts have their outputs resolved.
C20_Witness ==
    /\ stack.at = "done"
    /\ stack.took["otel"] = {"namespace", "jaeger", "prometheus"}
    /\ {"prometheus", "perses", "jaeger", "otel"} \subseteq stack.resolved

\* C21: a poll whose Get returned the pod's status ends the wait with
\* success if and only if the status holds the condition of type Ready
\* with status True, whatever the phase and the other conditions are.
C21_OnlyReadyConsulted ==
    [][\A r \in Runs :
        pc[r] = "get" =>
            /\ (pc'[r] = "copy" /\ pollErr'[r] = "nil")
                  => Cond("Ready", "True") \in pod.conditions
            /\ pc'[r] = "poll" => Cond("Ready", "True") \notin pod.conditions]_vars

\* The wait has succeeded on a pod that is not in phase Running and whose
\* other conditions are False.
C21_Witness ==
    \E r \in Runs :
        /\ pc[r] = "copy" /\ pollErr[r] = "nil"
        /\ pod.phase = "Pending"
        /\ pod.conditions = {Cond("Ready", "True"), Cond("ContainersReady", "False")}

\* C22: the local filesystem changes only in the untar of a run whose
\* stream call has returned without error; a run unpacks only after its
\* exec succeeded, and a run whose stream failed has unpacked nothing.
C22_NoWriteBeforeStreamOk ==
    /\ [](\A r \in Runs :
            /\ Began(r, "unpack") => Succeeded(r, "exec")
            /\ Failed(r, "exec") => (unpacked[r] = <<>> /\ ~Began(r, "unpack")))
    /\ [][fs' # fs =>
            \E r \in Runs :
                pc[r] = "untar" /\ pc'[r] # "untar" /\ Succeeded(r, "exec")]_vars

\* The command of a run failed after it had started, and the destination
\* still does not exist.
C22_Witness ==
    \E r \in Runs :
        /\ pc[r] = "done" /\ err[r] = "stream"
        /\ errText[r] = StreamError("transport", "")
        /\ ~Exists(fs, Dest)

\* The entries of a at which untar, started on filesystem f, has returned
\* an error.
FailsBy(a, f) == {k \in DOMAIN a : untar(SubSeq(a, 1, k), Dest, f).err}

\* C23: untar returns nil exactly when no entry of the stream fails; when
\* one does, it returns the error with the filesystem as it stood when the
\* first failing entry failed: no later entry has been processed and all
\* that the entries before it created is still there.
C23_StopsAtFirstError ==
    [][\A r \in Runs :
        UntarReturns(r) =>
            LET a == stdout[r]
                bad == FailsBy(a, fs)
            IN  /\ pc'[r] = "delete" <=> bad = {}
                /\ bad # {} =>
                     LET k == CHOOSE i \in bad : \A j \in bad : i <= j
                         before == untar(SubSeq(a, 1, k - 1), Dest, fs).fs
                     IN  /\ pc'[r] = "done" /\ err'[r] = "archive"
                         /\ fs' = untar(SubSeq(a, 1, k), Dest, fs).fs
                         /\ \A q \in DOMAIN before :
                               q \in DOMAIN fs' /\ fs'[q] = before[q]]_vars

\* untar failed at a damaged header after it had written a file; the file
\* is there and the directory of the entry after the damage is not.
C23_Witness ==
    \E r \in Runs :
        /\ pc[r] = "done" /\ err[r] = "archive"
        /\ unpacked[r] = << Entry(<<".", "b">>, "reg", "y"),
                            Entry(<<>>, "corrupt", ""),
                            Entry(<<".", "a">>, "dir", "") >>
        /\ IsFile(fs, Dest \o <<"b">>) /\ fs[Dest \o <<"b">>].data = "y"
        /\ ~Exists(fs, Dest \o <<"a">>)

\* C24: after a successful unpack every path named by regular-file entries
\* holds a file whose content is that of the last such entry in the
\* stream.
C24_LastEntryWins ==
    [][\A r \in Runs :
        (UntarReturns(r) /\ pc'[r] = "delete") =>
            \A k \in DOMAIN stdout[r] :
                LET a == stdout[r]
                    same == {j \in DOMAIN a :
                                a[j].typeflag = "reg" /\ Target(a[j]) = Target(a[k])}
                IN  a[k].typeflag = "reg" =>
                        /\ IsFile(fs', Target(a[k]))
                        /\ \E j \in same :
                              /\ \A i \in same : i <= j
                              /\ fs'[Target(a[k])].data = a[j].data]_vars

\* Two entries for the same file with different contents were unpacked,
\* the one with the empty content last, and the file is empty.
C24_Witness ==
    \E r \in Runs :
        /\ pc[r] = "delete"
        /\ unpacked[r] = << Entry(<<".", "b">>, "reg", "y"),
                            Entry(<<".", "b">>, "reg", "") >>
        /\ IsFile(fs, Dest \o <<"b">>) /\ fs[Dest \o <<"b">>].data = ""

\* The archive holds directory and regular-file entries only.
DirsAndFiles(a) == \A k \in DOMAIN a : a[k].typeflag \in {"dir", "reg"}

\* C27 as stated: an archive of directories and regular files forming a
\* consistent tree is unpacked without error, and unpacking it once more
\* into the same destination succeeds and changes nothing.
C27_TwiceSucceeds ==
    [][\A r \in Runs :
        (UntarReturns(r) /\ DirsAndFiles(stdout[r]) /\ ConsistentTree(stdout[r])) =>
            /\ pc'[r] = "delete"
            /\ untar(stdout[r], Dest, fs') = [err |-> FALSE, fs |-> fs']]_vars

\* C27, amended: when the unpack of an archive of directories and regular
\* files has succeeded, unpacking the same archive once more into the same
\* destination succeeds and leaves the filesystem as it is.
C27_Idempotent ==
    [][\A r \in Runs :
        (UntarReturns(r) /\ DirsAndFiles(stdout[r]) /\ pc'[r] = "delete") =>
            untar(stdout[r], Dest, fs') = [err |-> FALSE, fs |-> fs']]_vars

\* An archive with a directory, a file in it and a file written twice was
\* unpacked into a destination that held another file at one of the paths.
C27_Witness ==
    \E r \in Runs :
        /\ pc[r] = "delete"
        /\ unpacked[r] = << Entry(<<".", "a", "b">>, "reg", "x"),
                            Entry(<<".", "b">>, "reg", "y"),
                            Entry(<<".", "b">>, "reg", "") >>
        /\ IsFile(fs, Dest \o <<"a", "b">>) /\ fs[Dest \o <<"a", "b">>].data = "x"
        /\ IsFile(fs, Dest \o <<"b">>) /\ fs[Dest \o <<"b">>].data = ""

\* The paths the directory and regular-file entries of a name.
Named(a) == {Target(a[k]) : k \in {j \in DOMAIN a : a[j].typeflag \in {"dir", "reg"}}}

\* C28: untar deletes nothing; a node that was there before and is named
\* by no regular-file entry is unchanged, and every new node is a file
\* named by a regular-file entry or a directory that is named by an entry
\* or is an ancestor of a path an entry names.
C28_Frame ==
    [][\A r \in Runs :
        UntarReturns(r) =>
            LET a == stdout[r]
                files == {Target(a[k]) : k \in {j \in DOMAIN a : a[j].typeflag = "reg"}}
            IN  /\ \A q \in DOMAIN fs :
                      /\ q \in DOMAIN fs'
                      /\ q \notin files => fs'[q] = fs[q]
                      /\ fs'[q].kind = fs[q].kind
                /\ \A q \in DOMAIN fs' \ DOMAIN fs :
                      IF fs'[q].kind = "file" THEN q \in files
                      ELSE \E t \in Named(a) : IsPrefix(q, t)]_vars

\* An archive naming one file was unpacked into a destination that held a
\* tree: the file is written and the rest of the tree is as it was.
C28_Witness ==
    \E r \in Runs :
        /\ pc[r] = "delete"
        /\ unpacked[r] = <<Entry(<<".", "a", "b">>, "reg", "x")>>
        /\ fs = [FsStaleTree EXCEPT ![Dest \o <<"a", "b">>] = FileNode("x")]

\* C26: once a run has ended after a failed readiness wait, stream or
\* unpack, the creation of every other run that comes to it afterwards is
\* refused with the name conflict, and that run issues nothing else and
\* unpacks nothing.
C26_LeftoverPodBlocksLaterRuns ==
    [][\A r \in Runs :
        (/\ pc[r] = "create" /\ pc'[r] \notin {"create", "killed"}
         /\ \E q \in Runs \ {r} :
               /\ pc[q] = "done"
               /\ Failed(q, "wait") \/ Failed(q, "exec") \/ Failed(q, "unpack"))
        => /\ pc'[r] = "done" /\ err'[r] = "create"
           /\ pod' = pod /\ pod.exists]_vars

\* C25: the registry NewJaeger works with is empty for a nil or empty
\* args.Registry and ends with exactly one "/" otherwise, and normalizing
\* it once more changes nothing.
C25_RegistryNormalized ==
    (stack.kind = "jaeger" /\ stack.at \notin {"idle", "new"}) =>
        LET in == stack.Registry
            out == stack.registry
        IN  /\ (~in.set \/ in.str = <<>>) => out = <<>>
            /\ (in.set /\ in.str # <<>>) =>
                  /\ HasSuffixSlash(out)
                  /\ ~HasSuffixSlash(SubSeq(out, 1, Len(out) - 1))
            /\ NormalizeRegistry([set |-> TRUE, str |-> out]) = out

\* C29: a constructor runs defaults, check, registration, provision and
\* outputs in this order and stops at the first that fails; when check
\* has failed the constructor has returned the error, the component is not
\* registered and nothing is provisioned.
C29_ConstructorOrder ==
    /\ IsPrefix(stack.trace, <<"defaults", "check", "register", "provision", "outputs">>)
    /\ stack.merr # "nil" =>
          /\ stack.at = "returned" /\ stack.ret = "error"
          /\ stack.trace = <<"defaults", "check">>
          /\ ~stack.registered /\ ~stack.provisioned
    /\ stack.registered => (stack.merr = "nil" /\ Len(stack.trace) >= 3)
    /\ stack.provisioned => stack.registered
    /\ stack.ret = "ok" => Len(stack.trace) = 5

\* NewPerses has returned the error of an empty Prometheus URL, found by
\* the callback of its check, with nothing registered.
C29_Witness ==
    /\ stack.kind = "perses" /\ stack.input = "empty"
    /\ stack.at = "returned" /\ stack.ret = "error" /\ stack.merr = "error"
    /\ stack.cb = "done" /\ stack.closed
    /\ ~stack.registered /\ ~stack.provisioned

\* C30: no send of a callback blocks, the channel is closed and check
\* returns only after every callback has finished, check returns an error
\* if and only if a callback reported one, and while check waits there is
\* a callback that will still run and call Done.
C30_ChecksNeverDeadlock ==
    /\ stack.cb # "blocked" /\ Len(stack.cerr) <= Checks
    /\ stack.closed => (stack.cb = "done" /\ stack.wg = 0)
    /\ stack.closed => (stack.merr = "error" <=> Sent(stack.kind, stack.input) = "error")
    /\ (stack.at = "wait" /\ stack.wg > 0) =>
          \/ stack.cb = "sent"
          \/ stack.cb = "pending" /\ stack.known

====
